---- MODULE Spec2Model ----
(***************************************************************************)
(* Research-to-blog pipeline: SequentialWorkflow, the orchestrator that    *)
(* builds and runs it, and the LangChain blog agent it calls.              *)
(*                                                                         *)
(* Python strings are sequences of one-character strings, so that          *)
(* concatenation, prefixes and stripping are computed and not assumed.     *)
(* Python values are tagged records: a str, None, or an object that        *)
(* exposes some of the attributes content, text and metadata.              *)
(***************************************************************************)
EXTENDS Integers, Sequences, FiniteSets, TLC

(***************************************************************************)
(* Bounds                                                                  *)
(***************************************************************************)
MaxStages == 3

(***************************************************************************)
(* Python values                                                           *)
(***************************************************************************)
Absent == [tag |-> "absent"]
NoneV == [tag |-> "none"]
StrV(s) == [tag |-> "str", s |-> s]
BoolV(b) == [tag |-> "bool", b |-> b]
ObjV(c, t, m) == [tag |-> "obj", content |-> c, text |-> t, metadata |-> m]
EmptyMap == <<>>

hasattr(v, name) == v.tag = "obj" /\ name \in DOMAIN v /\ v[name] # Absent
isinstance_str(v) == v.tag = "str"

NoneRepr == <<"N","o","n","e">>
ObjRepr == <<"<","o","b","j","e","c","t",">">>

\* str(v): a str is itself, None is "None", any other object its repr
PyStr(v) ==
  IF v.tag = "str" THEN v.s
  ELSE IF v.tag = "none" THEN NoneRepr
  ELSE ObjRepr

\* truthiness of a str or None ("if not x")
Truthy(v) ==
  IF v.tag = "str" THEN Len(v.s) > 0
  ELSE v.tag # "none"

IsPrefix(p, s) == Len(p) <= Len(s) /\ SubSeq(s, 1, Len(p)) = p

Contains(s, sub) ==
  \E k \in 0..(Len(s) - Len(sub)) : SubSeq(s, k + 1, k + Len(sub)) = sub

Whitespace == {" ", "\n", "\t"}

RECURSIVE LStrip(_)
LStrip(s) ==
  IF s # <<>> /\ Head(s) \in Whitespace THEN LStrip(Tail(s)) ELSE s

RECURSIVE RStrip(_)
RStrip(s) ==
  IF s # <<>> /\ s[Len(s)] \in Whitespace
  THEN RStrip(SubSeq(s, 1, Len(s) - 1)) ELSE s

Strip(s) == RStrip(LStrip(s))

\* str.lower() on the ASCII letters
UpperLetters ==
  <<"A","B","C","D","E","F","G","H","I","J","K","L","M","N","O","P","Q","R","S","T","U","V","W","X","Y","Z">>
LowerLetters ==
  <<"a","b","c","d","e","f","g","h","i","j","k","l","m","n","o","p","q","r","s","t","u","v","w","x","y","z">>
LowerChar(c) ==
  IF \E k \in DOMAIN UpperLetters : UpperLetters[k] = c
  THEN LowerLetters[CHOOSE k \in DOMAIN UpperLetters : UpperLetters[k] = c]
  ELSE c
Lower(s) == [k \in DOMAIN s |-> LowerChar(s[k])]

(***************************************************************************)
(* Reply unwrapping in SequentialWorkflow.run                              *)
(***************************************************************************)
\* get_response branch: content, else text, else str()
UnwrapContentFirst(result) ==
  IF hasattr(result, "content") THEN result.content
  ELSE IF hasattr(result, "text") THEN result.text
  ELSE IF ~isinstance_str(result) THEN StrV(PyStr(result))
  ELSE result

\* run / sync_run branches: text, else content, else str()
UnwrapTextFirst(result) ==
  IF hasattr(result, "text") THEN result.text
  ELSE IF hasattr(result, "content") THEN result.content
  ELSE IF ~isinstance_str(result) THEN StrV(PyStr(result))
  ELSE result

Unwrap(entry, result) ==
  IF entry = "get_response" THEN UnwrapContentFirst(result)
  ELSE IF entry \in {"async_run", "sync_run", "run"} THEN UnwrapTextFirst(result)
  ELSE result

\* the research_content computed after stage 0
ResearchContent(result) ==
  IF hasattr(result, "text") THEN result.text
  ELSE IF hasattr(result, "content") THEN result.content
  ELSE IF ~isinstance_str(result) THEN StrV(PyStr(result))
  ELSE result

\* The f-string built for the blog stage: the text before and the text
\* after the substituted research content.
TemplateHead ==
  <<"\n"," "," "," "," "," "," "," "," "," "," "," "," "," "," "," "," ",
    "T","r","a","n","s","f","o","r","m"," ","t","h","e"," ","f","o","l","l",
    "o","w","i","n","g"," ","r","e","s","e","a","r","c","h"," ","c","o","n",
    "t","e","n","t"," ","i","n","t","o"," ","a","n"," ","e","n","g","a","g",
    "i","n","g"," ","b","l","o","g"," ","p","o","s","t",":","\n"," "," ",
    " "," "," "," "," "," "," "," "," "," "," "," "," "," ","\n"," "," ",
    " "," "," "," "," "," "," "," "," "," "," "," "," "," ","R","e","s","e",
    "a","r","c","h"," ","C","o","n","t","e","n","t",":","\n"," "," "," ",
    " "," "," "," "," "," "," "," "," "," "," "," "," ">>
TemplateTail ==
  <<"\n"," "," "," "," "," "," "," "," "," "," "," "," "," "," "," "," ",
    "\n"," "," "," "," "," "," "," "," "," "," "," "," "," "," "," "," ",
    "R","e","q","u","i","r","e","m","e","n","t","s",":","\n"," "," "," ",
    " "," "," "," "," "," "," "," "," "," "," "," "," ","-"," ","C","r","e",
    "a","t","e"," ","a"," ","c","o","m","p","e","l","l","i","n","g"," ","h",
    "e","a","d","l","i","n","e"," ","a","n","d"," ","i","n","t","r","o","d",
    "u","c","t","i","o","n","\n"," "," "," "," "," "," "," "," "," "," ",
    " "," "," "," "," "," ","-"," ","U","s","e"," ","c","l","e","a","r"," ",
    "s","e","c","t","i","o","n"," ","h","e","a","d","e","r","s"," ","a","n",
    "d"," ","s","t","r","u","c","t","u","r","e","\n"," "," "," "," "," ",
    " "," "," "," "," "," "," "," "," "," "," ","-"," ","I","n","c","l","u",
    "d","e"," ","p","r","a","c","t","i","c","a","l"," ","e","x","a","m","p",
    "l","e","s"," ","a","n","d"," ","a","p","p","l","i","c","a","t","i","o",
    "n","s","\n"," "," "," "," "," "," "," "," "," "," "," "," "," "," ",
    " "," ","-"," ","M","a","k","e"," ","c","o","m","p","l","e","x"," ","c",
    "o","n","c","e","p","t","s"," ","a","c","c","e","s","s","i","b","l","e",
    "\n"," "," "," "," "," "," "," "," "," "," "," "," "," "," "," "," ",
    "-"," ","E","n","s","u","r","e"," ","p","r","o","p","e","r"," ","m","a",
    "r","k","d","o","w","n"," ","f","o","r","m","a","t","t","i","n","g",
    "\n"," "," "," "," "," "," "," "," "," "," "," "," "," "," "," "," ",
    "-"," ","C","o","n","c","l","u","d","e"," ","w","i","t","h"," ","k","e",
    "y"," ","t","a","k","e","a","w","a","y","s"," ","a","n","d"," ","n","e",
    "x","t"," ","s","t","e","p","s","\n"," "," "," "," "," "," "," "," ",
    " "," "," "," "," "," "," "," ","\n"," "," "," "," "," "," "," "," ",
    " "," "," "," "," "," "," "," ","C","r","e","a","t","e"," ","a"," ","c",
    "o","m","p","l","e","t","e",","," ","p","u","b","l","i","c","a","t","i",
    "o","n","-","r","e","a","d","y"," ","b","l","o","g"," ","p","o","s","t",
    ".","\n"," "," "," "," "," "," "," "," "," "," "," "," "," "," "," ",
    " ">>

PromptTemplate(research_content) ==
  TemplateHead \o PyStr(research_content) \o TemplateTail

(***************************************************************************)
(* Result extraction in create_blog_from_topic                             *)
(***************************************************************************)
NoContentGenerated ==
  <<"N","o"," ","c","o","n","t","e","n","t"," ","g","e","n","e","r","a","t","e","d">>

\* an extraction without the None test: None falls through to str()
extract_content_NoNoneTest(result) ==
  IF isinstance_str(result) THEN result
  ELSE IF hasattr(result, "text") THEN result.text
  ELSE IF hasattr(result, "content") THEN result.content
  ELSE StrV(PyStr(result))

\* an extraction that renders a str with repr() instead of returning it
extract_content_Repr(result) ==
  IF result.tag = "none" THEN StrV(NoContentGenerated)
  ELSE IF isinstance_str(result) THEN StrV(<<"'">> \o result.s \o <<"'">>)
  ELSE IF hasattr(result, "text") THEN result.text
  ELSE IF hasattr(result, "content") THEN result.content
  ELSE StrV(PyStr(result))

extract_content(result) ==
  IF result.tag = "none" THEN StrV(NoContentGenerated)
  ELSE IF isinstance_str(result) THEN result
  ELSE IF hasattr(result, "text") THEN result.text
  ELSE IF hasattr(result, "content") THEN result.content
  ELSE StrV(PyStr(result))

extract_metadata(result) ==
  IF result.tag = "none" \/ isinstance_str(result) THEN EmptyMap
  ELSE IF hasattr(result, "metadata") THEN result.metadata
  ELSE EmptyMap

(***************************************************************************)
(* Exceptions                                                              *)
(***************************************************************************)
Exc(type, msg) == [type |-> type, msg |-> msg]
NoExc == [type |-> "none", msg |-> <<>>]

EndpointRequiredMsg ==
  <<"A","Z","U","R","E","_","O","P","E","N","A","I","_","E","N","D","P","O",
    "I","N","T"," ","e","n","v","i","r","o","n","m","e","n","t"," ","v","a",
    "r","i","a","b","l","e"," ","i","s"," ","r","e","q","u","i","r","e","d">>
NoValidAuthMsg ==
  <<"N","o"," ","v","a","l","i","d"," ","a","u","t","h","e","n","t","i","c",
    "a","t","i","o","n"," ","m","e","t","h","o","d"," ","f","o","u","n","d",
    "."," ","P","l","e","a","s","e"," ","e","i","t","h","e","r",":","\\",
    "n","1","."," ","S","e","t"," ","A","Z","U","R","E","_","O","P","E","N",
    "A","I","_","A","P","I","_","K","E","Y"," ","e","n","v","i","r","o","n",
    "m","e","n","t"," ","v","a","r","i","a","b","l","e",","," ","o","r",
    "\\","n","2","."," ","C","o","n","f","i","g","u","r","e"," ","A","z",
    "u","r","e"," ","C","L","I"," ","w","i","t","h"," ","'","a","z"," ","l",
    "o","g","i","n","'">>
MissingEnvMsg ==
  <<"M","i","s","s","i","n","g"," ","r","e","q","u","i","r","e","d"," ","e",
    "n","v","i","r","o","n","m","e","n","t"," ","v","a","r","i","a","b","l",
    "e","s","."," ","P","l","e","a","s","e"," ","s","e","t"," ","A","Z","U",
    "R","E","_","A","I","_","P","R","O","J","E","C","T","_","E","N","D","P",
    "O","I","N","T"," ","a","n","d"," ","A","Z","U","R","E","_","A","I","_",
    "M","O","D","E","L","_","D","E","P","L","O","Y","M","E","N","T","_","N",
    "A","M","E">>
NotCallableMsg ==
  <<"'","N","o","n","e","T","y","p","e","'"," ","o","b","j","e","c","t"," ",
    "i","s"," ","n","o","t"," ","c","a","l","l","a","b","l","e">>
TransportMsg == <<"c","o","n","n","e","c","t","i","o","n"," ","r","e","f","u","s","e","d">>

\* what a call to a hosted model may raise
TransportErrors == {Exc("ConnectionError", TransportMsg)}

(***************************************************************************)
(* Agents, by the entry points they expose                                 *)
(***************************************************************************)
Agent(impl, get_response, run, sync_run) ==
  [impl |-> impl, get_response |-> get_response, run |-> run,
   sync_run |-> sync_run]

\* Python None in an agent slot
NoAgent == Agent("none", "none", "none", FALSE)
\* AzureAIAgentClient: a chat client with a coroutine get_response
AzureAIAgentClient == Agent("azure", "coro", "none", FALSE)
\* LangChainBlogAgent: async def run, def sync_run
LangChainBlogAgent == Agent("langchain", "none", "coro", TRUE)

\* duck-typed agents a caller may hand to SequentialWorkflow
AgentPool ==
  { Agent("mock", "coro", "none", FALSE),
    Agent("mock", "none", "coro", FALSE),
    Agent("mock", "none", "none", TRUE),
    Agent("mock", "none", "plain", FALSE),
    Agent("mock", "none", "none", FALSE) }

\* every combination of attributes the chain of run tests: get_response
\* and run absent, a coroutine function or a plain function; sync_run
\* present or not
AttributeKinds == {"none", "coro", "plain"}
AnyAgent ==
  {Agent("mock", g, r, sr) : g \in AttributeKinds, r \in AttributeKinds,
                             sr \in BOOLEAN}

\* a chain that tests run before get_response
EntryPoint_RunFirst(agent) ==
  IF agent.run = "coro" THEN "async_run"
  ELSE IF agent.get_response = "coro" THEN "get_response"
  ELSE IF agent.sync_run THEN "sync_run"
  ELSE IF agent.run # "none" THEN "run"
  ELSE "call"

\* the if/elif chain that picks the entry point of a stage
EntryPoint(agent) ==
  IF agent.get_response = "coro" THEN "get_response"
  ELSE IF agent.run = "coro" THEN "async_run"
  ELSE IF agent.sync_run THEN "sync_run"
  ELSE IF agent.run # "none" THEN "run"
  ELSE "call"

(***************************************************************************)
(* Replies of the duck-typed agents.  The payload names the field and the  *)
(* stage that produced it, so replies of different stages differ.          *)
(***************************************************************************)
Digits == <<"0","1","2","3","4","5","6","7","8","9">>
Digit(k) == Digits[k + 1]

MockMetadata == [agent_type |-> "mock"]

RawReplies(k) ==
  { StrV(<<"s", Digit(k)>>),
    NoneV,
    ObjV(Absent, StrV(<<"t", Digit(k)>>), MockMetadata),
    ObjV(StrV(<<"c", Digit(k)>>), Absent, Absent),
    ObjV(StrV(<<"c", Digit(k)>>), StrV(<<"t", Digit(k)>>), MockMetadata),
    ObjV(Absent, NoneV, Absent),
    ObjV(Absent, Absent, Absent) }

(***************************************************************************)
(* LangChainBlogAgent                                                      *)
(***************************************************************************)
NewLangChainBlogAgent == [llm |-> "none", agent_executor |-> FALSE]

\* LangChainBlogAgent.initialize on agent state a under environment e
\* an initialize that asks the Azure CLI for a token first and uses the
\* API key only when that fails
LangChainInitialize_CliFirst(a, e) ==
  IF ~e.openai_endpoint
  THEN [raised |-> TRUE, err |-> Exc("ValueError", EndpointRequiredMsg),
        lc |-> a, cli |-> FALSE]
  ELSE IF e.cli_ok
  THEN [raised |-> FALSE, err |-> NoExc,
        lc |-> [llm |-> "ad_token", agent_executor |-> TRUE], cli |-> TRUE]
  ELSE IF e.api_key
  THEN [raised |-> FALSE, err |-> NoExc,
        lc |-> [llm |-> "api_key", agent_executor |-> TRUE], cli |-> TRUE]
  ELSE [raised |-> TRUE, err |-> Exc("ValueError", NoValidAuthMsg),
        lc |-> a, cli |-> TRUE]

\* cli: whether AzureCliCredential.get_token was called
LangChainInitialize(a, e) ==
  IF ~e.openai_endpoint
  THEN [raised |-> TRUE, err |-> Exc("ValueError", EndpointRequiredMsg),
        lc |-> a, cli |-> FALSE]
  ELSE IF e.api_key
  THEN [raised |-> FALSE, err |-> NoExc,
        lc |-> [llm |-> "api_key", agent_executor |-> TRUE], cli |-> FALSE]
  ELSE IF e.cli_ok
  THEN [raised |-> FALSE, err |-> NoExc,
        lc |-> [llm |-> "ad_token", agent_executor |-> TRUE], cli |-> TRUE]
  ELSE [raised |-> TRUE, err |-> Exc("ValueError", NoValidAuthMsg),
        lc |-> a, cli |-> TRUE]

\* results of AgentExecutor.ainvoke / invoke: the output and the
\* intermediate steps (tool, tool output, length of the tool output)
SubstantialLen == 500
PostText == <<"#"," ","P","o","s","t">>
FormattedNote ==
  <<"T","h","e"," ","b","l","o","g"," ","h","a","s"," ","b","e","e","n"," ",
    "f","o","r","m","a","t","t","e","d">>
OptimizedNote ==
  <<"o","p","t","i","m","i","z","e","d"," ","f","o","r"," ","S","E","O">>
ToolText == <<"#","#"," ","B","o","d","y">>
FormattingTools == {"format_blog_post", "add_seo_elements"}

Step(tool, len) == [tool |-> tool, out |-> ToolText, outlen |-> len]

ExecutorResults ==
  { [output |-> PostText, intermediate_steps |-> <<>>],
    [output |-> FormattedNote,
     intermediate_steps |-> <<Step("format_blog_post", SubstantialLen + 1)>>],
    [output |-> FormattedNote,
     intermediate_steps |-> <<Step("format_blog_post", SubstantialLen)>>],
    [output |-> PostText,
     intermediate_steps |-> <<Step("add_seo_elements", SubstantialLen + 1)>>] }

\* the first intermediate step whose formatting-tool output is substantial
RECURSIVE FirstSubstantial(_, _)
FirstSubstantial(steps, output) ==
  IF steps = <<>> THEN output
  ELSE IF Head(steps).tool \in FormattingTools
          /\ Head(steps).outlen > SubstantialLen
       THEN Head(steps).out
       ELSE FirstSubstantial(Tail(steps), output)

FilterOutput(r) ==
  IF Contains(r.output, FormattedNote) \/ Contains(r.output, OptimizedNote)
  THEN FirstSubstantial(r.intermediate_steps, r.output)
  ELSE r.output

\* BlogResult(content, metadata): the content lands in .text
BlogResult(content, metadata) == ObjV(Absent, StrV(content), metadata)

SuccessMetadata(r) ==
  [agent_type |-> "langchain", intermediate_steps |-> r.intermediate_steps,
   tool_calls |-> Len(r.intermediate_steps)]

ErrorGeneratingPrefix ==
  <<"E","r","r","o","r"," ","g","e","n","e","r","a","t","i","n","g"," ",
    "b","l","o","g"," ","p","o","s","t",":"," ">>

ErrorBlogResult(e) ==
  BlogResult(ErrorGeneratingPrefix \o e.msg,
             [error |-> e.msg, agent_type |-> "langchain"])

Outcome(raised, value, err, a) ==
  [raised |-> raised, value |-> value, err |-> err, lc |-> a]

\* the outcomes of one call of run (filter = TRUE) or sync_run on agent
\* state a: the lazy initialize() comes before the try block
LangChainCall(a, e, filter) ==
  LET ini == IF a.agent_executor
             THEN [raised |-> FALSE, err |-> NoExc, lc |-> a]
             ELSE LangChainInitialize(a, e)
  IN IF ini.raised
     THEN {Outcome(TRUE, NoneV, ini.err, ini.lc)}
     ELSE {Outcome(FALSE,
                   BlogResult(IF filter THEN FilterOutput(r) ELSE r.output,
                              SuccessMetadata(r)),
                   NoExc, ini.lc) : r \in ExecutorResults}
          \cup {Outcome(FALSE, ErrorBlogResult(x), NoExc, ini.lc)
                  : x \in TransportErrors}

LangChainRun(a, e) == LangChainCall(a, e, TRUE)
LangChainSyncRun(a, e) == LangChainCall(a, e, FALSE)

\* the outcomes of invoking the agent of stage k
StageOutcomes(agent, k, a, e) ==
  IF agent.impl = "none"
  THEN {Outcome(TRUE, NoneV, Exc("TypeError", NotCallableMsg), a)}
  ELSE IF agent.impl = "langchain"
  THEN LangChainRun(a, e)
  ELSE {Outcome(FALSE, r, NoExc, a) : r \in RawReplies(k)}
       \cup {Outcome(TRUE, NoneV, x, a) : x \in TransportErrors}

(***************************************************************************)
(* ResearchToBlogOrchestrator.initialize                                   *)
(***************************************************************************)
OrchestratorInitialize(e, ra, ba, a) ==
  IF ~e.agent_framework
  THEN [raised |-> FALSE, err |-> NoExc,
        research_agent |-> ra, blog_agent |-> ba, lc |-> a]
  ELSE IF ~e.project_env
  THEN [raised |-> TRUE, err |-> Exc("ValueError", MissingEnvMsg),
        research_agent |-> ra, blog_agent |-> ba, lc |-> a]
  ELSE IF ~e.langchain
  THEN [raised |-> FALSE, err |-> NoExc,
        research_agent |-> AzureAIAgentClient,
        blog_agent |-> AzureAIAgentClient, lc |-> a]
  ELSE LET ini == LangChainInitialize(NewLangChainBlogAgent, e)
       IN [raised |-> ini.raised, err |-> ini.err,
           research_agent |-> AzureAIAgentClient,
           blog_agent |-> LangChainBlogAgent, lc |-> ini.lc]

(***************************************************************************)
(* InteractiveResearcher                                                   *)
(***************************************************************************)
NewInteractiveResearcher == [agent |-> FALSE, credential |-> FALSE, cleaned |-> FALSE]

\* InteractiveResearcher.initialize on researcher state r
ResearcherInitialize(r, e) ==
  IF ~e.project_env
  THEN [raised |-> TRUE, err |-> Exc("ValueError", MissingEnvMsg), r |-> r]
  ELSE [raised |-> FALSE, err |-> NoExc,
        r |-> [r EXCEPT !.agent = TRUE, !.credential = TRUE]]

\* the unwrapping of the ChatResponse in research()
UnwrapResearchResponse(response) ==
  IF hasattr(response, "content") THEN response.content
  ELSE IF hasattr(response, "text") THEN response.text
  ELSE IF hasattr(response, "message") THEN response.message
  ELSE StrV(PyStr(response))

\* the outcomes of research(query) on researcher state r
Research(r, e) ==
  LET ini == IF r.agent THEN [raised |-> FALSE, err |-> NoExc, r |-> r]
             ELSE ResearcherInitialize(r, e)
  IN IF ini.raised
     THEN {[raised |-> TRUE, value |-> NoneV, err |-> ini.err, r |-> ini.r]}
     ELSE {[raised |-> FALSE, value |-> UnwrapResearchResponse(x),
            err |-> NoExc, r |-> ini.r] : x \in RawReplies(0)}
          \cup {[raised |-> TRUE, value |-> NoneV, err |-> x, r |-> ini.r]
                  : x \in TransportErrors}

(***************************************************************************)
(* DevUI wrappers (create_working_agents)                                  *)
(* A character a string of this language cannot hold (a backquote, a       *)
(* character outside ASCII) is written as one element naming its code      *)
(* point.                                                                  *)
(***************************************************************************)
ResearchErrorHead ==
  <<"#"," ","R","e","s","e","a","r","c","h"," ","E","r","r","o","r","\n",
    "\n","U","n","a","b","l","e"," ","t","o"," ","c","o","n","n","e","c",
    "t"," ","t","o"," ","A","z","u","r","e"," ","A","I"," ","s","e","r",
    "v","i","c","e","s"," ","f","o","r"," ","r","e","s","e","a","r","c",
    "h",".","\n","\n","*","*","E","r","r","o","r"," ","D","e","t","a","i",
    "l","s",":","*","*"," ">>

ResearchErrorTail ==
  <<"\n","\n","*","*","T","r","o","u","b","l","e","s","h","o","o","t","i",
    "n","g",":","*","*","\n","1","."," ","E","n","s","u","r","e"," ","A",
    "z","u","r","e"," ","C","L","I"," ","i","s"," ","a","u","t","h","e",
    "n","t","i","c","a","t","e","d"," ","(","U+0060","a","z"," ","l","o","g",
    "i","n","U+0060",")","\n","2","."," ","C","h","e","c","k"," ","y","o","u",
    "r"," ",".","e","n","v"," ","f","i","l","e"," ","h","a","s"," ","v",
    "a","l","i","d"," ","A","z","u","r","e"," ","A","I"," ","s","e","t",
    "t","i","n","g","s","\n","3","."," ","V","e","r","i","f","y"," ","y",
    "o","u","r"," ","A","z","u","r","e"," ","A","I"," ","p","r","o","j",
    "e","c","t"," ","a","n","d"," ","m","o","d","e","l"," ","d","e","p",
    "l","o","y","m","e","n","t","\n","4","."," ","C","h","e","c","k"," ",
    "y","o","u","r"," ","i","n","t","e","r","n","e","t"," ","c","o","n",
    "n","e","c","t","i","o","n","\n","\n","*","*","E","n","v","i","r","o",
    "n","m","e","n","t"," ","V","a","r","i","a","b","l","e","s"," ","R",
    "e","q","u","i","r","e","d",":","*","*","\n","-"," ","A","Z","U","R",
    "E","_","A","I","_","P","R","O","J","E","C","T","_","E","N","D","P",
    "O","I","N","T","\n","-"," ","A","Z","U","R","E","_","A","I","_","M",
    "O","D","E","L","_","D","E","P","L","O","Y","M","E","N","T","_","N",
    "A","M","E","\n","\n","P","l","e","a","s","e"," ","r","e","s","o","l",
    "v","e"," ","t","h","e","s","e"," ","i","s","s","u","e","s"," ","a",
    "n","d"," ","t","r","y"," ","a","g","a","i","n",".">>

OrchestratorErrorHead ==
  <<"#"," ","O","r","c","h","e","s","t","r","a","t","o","r"," ","W","o",
    "r","k","f","l","o","w"," ","E","r","r","o","r","\n","\n","U","n","a",
    "b","l","e"," ","t","o"," ","c","o","m","p","l","e","t","e"," ","t",
    "h","e"," ","r","e","s","e","a","r","c","h","-","t","o","-","b","l",
    "o","g"," ","w","o","r","k","f","l","o","w",".","\n","\n","*","*","E",
    "r","r","o","r"," ","D","e","t","a","i","l","s",":","*","*"," ">>

OrchestratorErrorTail ==
  <<"\n","\n","*","*","T","r","o","u","b","l","e","s","h","o","o","t","i",
    "n","g",":","*","*","\n","1","."," ","E","n","s","u","r","e"," ","b",
    "o","t","h"," ","r","e","s","e","a","r","c","h"," ","a","n","d"," ",
    "b","l","o","g"," ","a","g","e","n","t","s"," ","a","r","e"," ","p",
    "r","o","p","e","r","l","y"," ","c","o","n","f","i","g","u","r","e",
    "d","\n","2","."," ","C","h","e","c","k"," ","A","z","u","r","e"," ",
    "A","I"," ","a","n","d"," ","L","a","n","g","C","h","a","i","n"," ",
    "a","u","t","h","e","n","t","i","c","a","t","i","o","n","\n","3",".",
    " ","V","e","r","i","f","y"," ","a","l","l"," ","r","e","q","u","i",
    "r","e","d"," ","e","n","v","i","r","o","n","m","e","n","t"," ","v",
    "a","r","i","a","b","l","e","s"," ","a","r","e"," ","s","e","t","\n",
    "\n","T","h","e"," ","o","r","c","h","e","s","t","r","a","t","o","r",
    " ","c","o","m","b","i","n","e","s"," ","r","e","s","e","a","r","c",
    "h"," ","a","n","d"," ","b","l","o","g"," ","c","r","e","a","t","i",
    "o","n"," ","i","n"," ","a"," ","s","e","q","u","e","n","t","i","a",
    "l"," ","w","o","r","k","f","l","o","w",".">>

CombinedHead ==
  <<"#"," ","R","e","s","e","a","r","c","h","-","t","o","-","B","l","o",
    "g"," ","W","o","r","k","f","l","o","w"," ","R","e","s","u","l","t",
    "s","\n","\n","#","#"," ","U+1F4CA"," ","R","e","s","e","a","r","c","h"," ",
    "P","h","a","s","e","\n">>

CombinedMiddle ==
  <<"\n","\n","-","-","-","\n","\n","#","#"," ","U+1F4DD"," ","B","l","o","g",
    " ","P","o","s","t"," ","P","h","a","s","e"," "," ","\n">>

CombinedTail ==
  <<"\n","\n","-","-","-","\n","*","W","o","r","k","f","l","o","w"," ",
    "c","o","m","p","l","e","t","e","d"," ","s","u","c","c","e","s","s",
    "f","u","l","l","y"," ","v","i","a"," ","S","e","q","u","e","n","t",
    "i","a","l"," ","R","e","s","e","a","r","c","h","-","t","o","-","B",
    "l","o","g"," ","O","r","c","h","e","s","t","r","a","t","o","r","*">>

BlogGenerationErrorPrefix ==
  <<"B","l","o","g"," ","g","e","n","e","r","a","t","i","o","n"," ","e",
    "r","r","o","r",":"," ">>

StreamErrorPrefix ==
  <<"E","r","r","o","r",":"," ">>

\* messages DevUI may hand to a wrapper
Queries ==
  { StrV(<<" ","q">>),
    ObjV(StrV(<<"q","c">>), Absent, Absent),
    ObjV(Absent, StrV(<<"q","t">>), Absent),
    ObjV(StrV(<<"q","c">>), StrV(<<"q","t">>), Absent),
    ObjV(Absent, Absent, Absent) }

ExtractQuery_TextFirst(query) ==
  IF hasattr(query, "text") THEN query.text
  ELSE IF hasattr(query, "content") THEN query.content
  ELSE IF isinstance_str(query) THEN query
  ELSE StrV(PyStr(query))

\* the query text a wrapper's run extracts from its argument
ExtractQuery(query) ==
  IF hasattr(query, "content") THEN query.content
  ELSE IF hasattr(query, "text") THEN query.text
  ELSE IF isinstance_str(query) THEN query
  ELSE StrV(PyStr(query))

\* BlogAgentForDevUI.run: the unwrapping of the BlogResult
UnwrapBlogResponse(response) ==
  IF hasattr(response, "text") THEN response.text
  ELSE IF hasattr(response, "content") THEN response.content
  ELSE IF hasattr(response, "output") THEN response.output
  ELSE StrV(PyStr(response))

\* what each wrapper's run returns from its except clause
BlogWrapperError(e) == StrV(BlogGenerationErrorPrefix \o e.msg)
ResearcherWrapperError(e) == StrV(ResearchErrorHead \o e.msg \o ResearchErrorTail)
OrchestratorWrapperError(e) ==
  StrV(OrchestratorErrorHead \o e.msg \o OrchestratorErrorTail)

\* the combined result of the orchestrator wrapper
CombinedResult(wr) ==
  StrV(CombinedHead \o PyStr(wr.research.content) \o CombinedMiddle
         \o PyStr(wr.blog_post.content) \o CombinedTail)

\* run_stream: the one chunk it yields for what self.run did
StreamChunk(run_raised, value, e) ==
  IF run_raised THEN StrV(StreamErrorPrefix \o e.msg) ELSE value

\* an error reply of LangChainBlogAgent
IsErrorReply(v) ==
  v.tag = "obj" /\ hasattr(v, "metadata") /\ "error" \in DOMAIN v.metadata

\* the handles one pass of ResearchToBlogOrchestrator.initialize acquires
AcquiredByInitialize(e) ==
  IF e.agent_framework /\ e.project_env
  THEN {"credential", "research_agent", "blog_agent"}
  ELSE {}

(***************************************************************************)
(* State                                                                   *)
(***************************************************************************)
VARIABLES
  scenario,          \* who drives: a caller of SequentialWorkflow, of the
                     \* orchestrator, or of LangChainBlogAgent
  env,               \* importable packages and environment variables
  agents,            \* SequentialWorkflow.agents
  pc,                \* position of SequentialWorkflow.run
  i,                 \* loop index of run
  initial_input,     \* argument of run
  current_input,     \* local of run
  results,           \* local of run, returned at the end
  raised,            \* the exception that left the last call, or NoExc
  invoked,           \* history: stage and input of every agent call of the run
  outstanding,       \* history: stages whose call has not returned
  replies,           \* history: the raw reply of every returned stage
  research_agent,    \* ResearchToBlogOrchestrator.research_agent
  blog_agent,        \* ResearchToBlogOrchestrator.blog_agent
  lc,                \* fields of the LangChainBlogAgent instance
  opc,               \* position of create_blog_from_topic
  workflow_results,  \* value returned by create_blog_from_topic
  call,              \* the last call made from outside and what it gave
  dev,               \* the DevUI wrappers and their fields
  researcher,        \* fields of the InteractiveResearcher instance
  handles,           \* history: handles acquired, and those whose close
                     \* was attempted
  cancel,            \* the cancellation requested on the task of the run,
                     \* and the stage that was executing then
  session,           \* an interactive session or the demo: which function,
                     \* where it is, why it left its loop, cleanup() calls
  files,             \* the working directory of setup.py: .env.example
                     \* and .env
  tasks              \* two tasks executing run on one workflow: each
                     \* coroutine's position, its local variables, and the
                     \* history of what its caller gave and got

vars ==
  <<scenario, env, agents, pc, i, initial_input, current_input, results,
    raised, invoked, outstanding, replies, research_agent, blog_agent, lc,
    opc, workflow_results, call, dev, researcher, handles, cancel, tasks, session,
    files>>

wfvars == <<agents, pc, i, initial_input, current_input, results, invoked,
            outstanding, replies, cancel>>
orchvars == <<research_agent, blog_agent, opc, workflow_results>>
extvars == <<dev, researcher, handles, tasks, session>>

Topics == {<<>>, <<" ">>, <<" ","a","i"," ">>}

Envs ==
  [agent_framework : BOOLEAN, project_env : BOOLEAN, langchain : BOOLEAN,
   openai_endpoint : BOOLEAN, api_key : BOOLEAN, cli_ok : BOOLEAN]

FullEnv ==
  [agent_framework |-> TRUE, project_env |-> TRUE, langchain |-> TRUE,
   openai_endpoint |-> TRUE, api_key |-> TRUE, cli_ok |-> TRUE]

\* agent lists handed to the constructor: a first agent and any number of
\* further agents of one kind
AgentLists ==
  { [j \in 1..n |-> IF j = 1 THEN first ELSE rest] :
      n \in 0..MaxStages, first \in AgentPool, rest \in AgentPool }

NoResults == [workflow_status |-> "none"]
NoCall == [method |-> "none", raised |-> FALSE, value |-> NoneV]
\* the calls of a wrapped object's initialize() that returned without
\* raising are counted up to this number
MaxInits == 2
Counted(n, more) == IF n + more > MaxInits THEN MaxInits ELSE n + more

NoWrappers ==
  [agents |-> <<>>, created |-> FALSE, blog_lc |-> NewLangChainBlogAgent,
   r_initialized |-> FALSE, o_initialized |-> FALSE, pc |-> "idle",
   entity |-> "none", r_inits |-> 0, o_inits |-> 0]

NoHandles == [acquired |-> {}, attempted |-> {}, closed |-> {}]
NoCancel == [requested |-> FALSE, stage |-> 0]
NoSession == [kind |-> "none", pc |-> "none", cause |-> "none", cleanups |-> 0]

\* the two tasks of a concurrent use of one workflow
RunIds == {1, 2}
NoHistory ==
  [topic |-> <<>>, inputs |-> <<>>, produced |-> <<>>, returned |-> <<>>,
   overlapped |-> FALSE]
NoTasks ==
  [pos |-> [r \in RunIds |-> [pc |-> "idle", i |-> 0]],
   data |-> [r \in RunIds |-> [current_input |-> <<>>, results |-> <<>>]],
   hist |-> [r \in RunIds |-> NoHistory]]

\* the two files setup_environment looks at: the text of each as a StrV,
\* or Absent
NoFiles == [example |-> Absent, dotenv |-> Absent]
ExampleText == <<"K", "=">>
EditedText == <<"K", "=", "1">>
WorkingDirectories ==
  [example : {Absent, StrV(ExampleText)},
   dotenv : {Absent, StrV(ExampleText), StrV(EditedText)}]

InitIn(scenarios) ==
  /\ scenario \in scenarios
  /\ env \in IF scenario \in {"workflow", "normalize", "tasks", "entry",
                              "setup", "tools", "utils"}
             THEN {FullEnv}
             ELSE IF scenario \in {"orchestrator", "devui", "session"} THEN Envs
             ELSE IF scenario = "researcher"
             THEN {e \in Envs : e.agent_framework /\ e.langchain
                                /\ e.openai_endpoint /\ e.api_key /\ e.cli_ok}
             ELSE {e \in Envs : e.agent_framework /\ e.project_env /\ e.langchain}
  /\ agents = <<>>
  /\ pc = "unbuilt"
  /\ i = 0
  /\ initial_input = <<>>
  /\ current_input = <<>>
  /\ results = <<>>
  /\ raised = NoExc
  /\ invoked = <<>>
  /\ outstanding = {}
  /\ replies = <<>>
  /\ research_agent = NoAgent
  /\ blog_agent = NoAgent
  /\ lc = NewLangChainBlogAgent
  /\ opc = "idle"
  /\ workflow_results = NoResults
  /\ call = NoCall
  /\ dev = NoWrappers
  /\ researcher = NewInteractiveResearcher
  /\ handles = NoHandles
  /\ cancel = NoCancel
  /\ tasks = NoTasks
  /\ session = NoSession
  /\ files \in IF scenario = "setup" THEN WorkingDirectories ELSE {NoFiles}

Init ==
  InitIn({"workflow", "orchestrator", "blogagent", "normalize", "devui",
          "researcher", "session", "entry", "setup", "tools", "utils"})

(***************************************************************************)
(* SequentialWorkflow                                                      *)
(***************************************************************************)
\* __init__: stores the list it is given
Construct ==
  /\ scenario = "workflow"
  /\ pc = "unbuilt"
  /\ \E list \in AgentLists : agents' = list
  /\ pc' = "idle"
  /\ UNCHANGED <<scenario, env, files, i, initial_input, current_input, results,
                 raised, invoked, outstanding, replies, lc, call, cancel>>
  /\ UNCHANGED orchvars
  /\ UNCHANGED extvars

\* __init__ with agents of any attribute combination, one or two stages
ConstructAny ==
  /\ scenario = "entry"
  /\ pc = "unbuilt"
  /\ \E a \in AnyAgent : agents' \in {<<a>>, <<a, a>>}
  /\ pc' = "idle"
  /\ UNCHANGED <<scenario, env, files, i, initial_input, current_input, results,
                 raised, invoked, outstanding, replies, lc, call, cancel>>
  /\ UNCHANGED orchvars
  /\ UNCHANGED extvars

\* a run that trims the topic before the first stage
FirstInput_Stripped(topic) == Strip(topic)

\* current_input = initial_input
FirstInput(topic) == topic

\* a run that goes on with the list the previous run left
FreshResults_Retained(left) == left

\* results = []: a new local list, whatever list an earlier run left
FreshResults(left) == <<>>

\* entry of run: results = [], current_input = initial_input
EnterRun(topic) ==
  /\ initial_input' = topic
  /\ current_input' = FirstInput(topic)
  /\ results' = FreshResults(results)
  /\ i' = 0
  /\ pc' = "loop"
  /\ raised' = NoExc
  /\ invoked' = <<>>
  /\ outstanding' = {}
  /\ replies' = <<>>
  /\ cancel' = NoCancel

Run ==
  /\ scenario \in {"workflow", "entry"}
  /\ pc \in {"idle", "returned", "raised"}
  /\ \E topic \in Topics : EnterRun(topic)
  /\ UNCHANGED <<scenario, env, files, agents, lc, call>>
  /\ UNCHANGED orchvars
  /\ UNCHANGED extvars

\* a run that starts the next agent while an earlier call is still pending
StageCall_Eager ==
  /\ pc \in {"loop", "awaiting"}
  /\ Len(invoked) < Len(agents)
  /\ pc' = "awaiting"
  /\ invoked' = Append(invoked, [stage |-> Len(invoked), input |-> current_input,
                                 entry |-> EntryPoint(agents[Len(invoked) + 1])])
  /\ outstanding' = outstanding \cup {Len(invoked)}
  /\ UNCHANGED <<scenario, env, files, agents, i, initial_input, current_input,
                 results, raised, replies, lc, call, cancel>>
  /\ UNCHANGED orchvars
  /\ UNCHANGED extvars

\* the loop reaches agent i and calls its entry point
StageCall ==
  /\ pc = "loop"
  /\ i < Len(agents)
  /\ pc' = "awaiting"
  /\ invoked' = Append(invoked, [stage |-> i, input |-> current_input,
                                 entry |-> EntryPoint(agents[i + 1])])
  /\ outstanding' = outstanding \cup {i}
  /\ UNCHANGED <<scenario, env, files, agents, i, initial_input, current_input,
                 results, raised, replies, lc, call, cancel>>
  /\ UNCHANGED orchvars
  /\ UNCHANGED extvars

\* a run that puts each new result in front of the earlier ones
Collect_Prepend(rs, result) == <<result>> \o rs

\* results.append(result)
Collect(rs, result) == Append(rs, result)

\* a template that carries the stage's own input along
NextInput_WithInput(k, n, result, input) ==
  IF k = 0 /\ n > 1 THEN PromptTemplate(ResearchContent(result)) \o input
  ELSE input

\* the input of the following stage
NextInput(k, n, result, input) ==
  IF k = 0 /\ n > 1 THEN PromptTemplate(ResearchContent(result)) ELSE input

\* the call returns: unwrap, append, build the next input, next iteration
StageReturn ==
  /\ pc = "awaiting"
  /\ \E o \in StageOutcomes(agents[i + 1], i, lc, env) :
       /\ ~o.raised
       /\ LET result == Unwrap(EntryPoint(agents[i + 1]), o.value)
          IN /\ results' = Collect(results, result)
             /\ current_input' = NextInput(i, Len(agents), result, current_input)
       /\ replies' = Append(replies, o.value)
       /\ lc' = o.lc
  /\ outstanding' = outstanding \ {i}
  /\ i' = i + 1
  /\ pc' = "loop"
  /\ UNCHANGED <<scenario, env, files, agents, initial_input, raised, invoked, call,
                 cancel>>
  /\ UNCHANGED orchvars
  /\ UNCHANGED extvars

\* the call raises: nothing in run catches it
StageRaise ==
  /\ pc = "awaiting"
  /\ \E o \in StageOutcomes(agents[i + 1], i, lc, env) :
       /\ o.raised
       /\ raised' = o.err
       /\ lc' = o.lc
  /\ outstanding' = outstanding \ {i}
  /\ pc' = "raised"
  /\ UNCHANGED <<scenario, env, files, agents, i, initial_input, current_input,
                 results, invoked, replies, call, cancel>>
  /\ UNCHANGED orchvars
  /\ UNCHANGED extvars

\* the loop is exhausted: return results
RunReturn ==
  /\ pc = "loop"
  /\ i = Len(agents)
  /\ pc' = "returned"
  /\ UNCHANGED <<scenario, env, files, agents, i, initial_input, current_input,
                 results, raised, invoked, outstanding, replies, lc, call,
                 cancel>>
  /\ UNCHANGED orchvars
  /\ UNCHANGED extvars

(***************************************************************************)
(* ResearchToBlogOrchestrator.create_blog_from_topic                       *)
(***************************************************************************)
\* up to the await of workflow.run, from agent slots ra, ba and blog agent
\* state a: initialize if an agent is unset, build the workflow over the two
\* agent slots, enter run
CreateBlogEnter(topic, ra, ba, a, acquired) ==
  LET unset == ra = NoAgent \/ ba = NoAgent
      ini == IF unset
             THEN OrchestratorInitialize(env, ra, ba, a)
             ELSE [raised |-> FALSE, err |-> NoExc,
                   research_agent |-> ra, blog_agent |-> ba, lc |-> a]
  IN /\ research_agent' = ini.research_agent
     /\ blog_agent' = ini.blog_agent
     /\ lc' = ini.lc
     /\ handles' = [handles EXCEPT !.acquired =
                      acquired \cup (IF unset THEN AcquiredByInitialize(env)
                                     ELSE {})]
     /\ workflow_results' = NoResults
     /\ IF ini.raised
        THEN /\ opc' = "raised"
             /\ raised' = ini.err
             /\ UNCHANGED wfvars
        ELSE /\ opc' = "workflow"
             /\ agents' = <<ini.research_agent, ini.blog_agent>>
             /\ EnterRun(topic)

CreateBlogFromTopic ==
  /\ scenario = "orchestrator"
  /\ opc \in {"idle", "done", "raised"}
  /\ \E topic \in Topics :
       CreateBlogEnter(topic, research_agent, blog_agent, lc, handles.acquired)
  /\ UNCHANGED <<scenario, env, files, call, dev, researcher, tasks, session>>

Result(k) == IF Len(results) > k THEN results[k + 1] ELSE NoneV

WorkflowStatus == "completed"

\* workflow.run returned: build the dictionary
CreateBlogReturn ==
  /\ opc = "workflow"
  /\ pc = "returned"
  /\ workflow_results' =
       [topic |-> initial_input,
        research |-> [content |-> extract_content(Result(0)),
                      metadata |-> extract_metadata(Result(0))],
        blog_post |-> [content |-> extract_content(Result(1)),
                       metadata |-> extract_metadata(Result(1))],
        workflow_status |-> WorkflowStatus]
  /\ opc' = "done"
  /\ UNCHANGED <<scenario, env, files, raised, lc, call, research_agent, blog_agent>>
  /\ UNCHANGED wfvars
  /\ UNCHANGED extvars

\* workflow.run raised: the exception leaves create_blog_from_topic
CreateBlogRaise ==
  /\ opc = "workflow"
  /\ pc = "raised"
  /\ opc' = "raised"
  /\ UNCHANGED <<scenario, env, files, raised, lc, call, research_agent, blog_agent,
                 workflow_results>>
  /\ UNCHANGED wfvars
  /\ UNCHANGED extvars

(***************************************************************************)
(* Direct calls of LangChainBlogAgent                                      *)
(***************************************************************************)
DirectCall(method, outcomes) ==
  /\ scenario = "blogagent"
  /\ \E o \in outcomes :
       /\ call' = [method |-> method, raised |-> o.raised, value |-> o.value]
       /\ raised' = o.err
       /\ lc' = o.lc
  /\ UNCHANGED <<scenario, env, files>>
  /\ UNCHANGED wfvars
  /\ UNCHANGED orchvars
  /\ UNCHANGED extvars

BlogAgentInitialize ==
  /\ scenario = "blogagent"
  /\ LET ini == LangChainInitialize(lc, env)
     IN /\ call' = [method |-> "initialize", raised |-> ini.raised,
                    value |-> NoneV, cli |-> ini.cli]
        /\ raised' = ini.err
        /\ lc' = ini.lc
  /\ UNCHANGED <<scenario, env, files>>
  /\ UNCHANGED wfvars
  /\ UNCHANGED orchvars
  /\ UNCHANGED extvars

BlogAgentRun == DirectCall("run", LangChainRun(lc, env))

BlogAgentSyncRun == DirectCall("sync_run", LangChainSyncRun(lc, env))

(***************************************************************************)
(* extract_content / extract_metadata applied to a reply, and applied      *)
(* again to what the first application produced                            *)
(***************************************************************************)
Normalized(method, raw) ==
  [method |-> method, raised |-> FALSE, raw |-> raw,
   value |-> extract_content(raw), metadata |-> extract_metadata(raw)]

Normalize ==
  /\ scenario = "normalize"
  /\ \E raw \in RawReplies(0) : call' = Normalized("normalize", raw)
  /\ UNCHANGED <<scenario, env, files, raised, lc>>
  /\ UNCHANGED wfvars
  /\ UNCHANGED orchvars
  /\ UNCHANGED extvars

Renormalize ==
  /\ scenario = "normalize"
  /\ call.method = "normalize"
  /\ call' = Normalized("renormalize", call.value)
  /\ UNCHANGED <<scenario, env, files, raised, lc>>
  /\ UNCHANGED wfvars
  /\ UNCHANGED orchvars
  /\ UNCHANGED extvars

(***************************************************************************)
(* cleanup of ResearchToBlogOrchestrator and of InteractiveResearcher      *)
(***************************************************************************)
\* one guarded close: the handles whose close is attempted, given which
\* fields are set; a close that raises is swallowed and leaves it open
CloseAll(set, failing) ==
  [handles EXCEPT !.attempted = @ \cup set,
                  !.closed = @ \cup (set \ failing)]

\* the body of ResearchToBlogOrchestrator.cleanup
OrchestratorClose ==
  LET set == (IF research_agent # NoAgent THEN {"research_agent"} ELSE {})
             \cup (IF blog_agent # NoAgent THEN {"blog_agent"} ELSE {})
      \* LangChainBlogAgent has no close method: the attribute error is
      \* swallowed like any other
      noclose == IF blog_agent = LangChainBlogAgent THEN {"blog_agent"}
                 ELSE {}
  IN \E failing \in SUBSET set :
       handles' = CloseAll(set, failing \cup noclose)

\* the body of InteractiveResearcher.cleanup
ResearcherClose ==
  /\ LET set == (IF researcher.agent THEN {"agent"} ELSE {})
                \cup (IF researcher.credential THEN {"credential"} ELSE {})
     IN \E failing \in SUBSET set : handles' = CloseAll(set, failing)
  /\ researcher' = [researcher EXCEPT !.cleaned = TRUE]

cleanup ==
  /\ scenario = "orchestrator"
  /\ opc \in {"idle", "done", "raised"}
  /\ OrchestratorClose
  /\ opc' = "cleaned"
  /\ UNCHANGED <<scenario, env, files, raised, lc, call, research_agent, blog_agent,
                 workflow_results, dev, researcher, tasks, session>>
  /\ UNCHANGED wfvars

\* a direct call of InteractiveResearcher.research
ResearcherResearch ==
  /\ scenario = "researcher"
  /\ ~researcher.cleaned
  /\ \E query \in Topics, o \in Research(researcher, env) :
       /\ call' = [method |-> "research", raised |-> o.raised,
                   value |-> o.value, query |-> query]
       /\ raised' = o.err
       /\ researcher' = o.r
       /\ handles' = [handles EXCEPT !.acquired =
                        @ \cup (IF o.r.agent /\ ~researcher.agent
                                THEN {"agent", "credential"} ELSE {})]
  /\ UNCHANGED <<scenario, env, files, lc, dev, tasks, session>>
  /\ UNCHANGED wfvars
  /\ UNCHANGED orchvars

ResearcherCleanup ==
  /\ scenario = "researcher"
  /\ ResearcherClose
  /\ UNCHANGED <<scenario, env, files, raised, lc, call, dev, tasks, session>>
  /\ UNCHANGED wfvars
  /\ UNCHANGED orchvars

(***************************************************************************)
(* create_working_agents and the wrappers' run / run_stream                *)
(***************************************************************************)
\* a create_working_agents with one try block around the three creations:
\* the first failure ends the function with what was appended before it
CreateWorkingAgents_OneTry ==
  /\ scenario = "devui"
  /\ ~dev.created
  /\ LET ini == LangChainInitialize(NewLangChainBlogAgent, env)
         blog_ok == env.langchain /\ ~ini.raised
         created ==
           IF ~blog_ok THEN <<>>
           ELSE IF ~env.agent_framework THEN <<"BlogAgentForDevUI">>
           ELSE <<"BlogAgentForDevUI", "ResearcherAgentForDevUI",
                  "OrchestratorAgentForDevUI">>
     IN dev' = [dev EXCEPT
                  !.created = TRUE,
                  !.blog_lc = IF blog_ok THEN ini.lc ELSE @,
                  !.agents = created,
                  !.entity = IF created = <<>> THEN @ ELSE created[1]]
  /\ UNCHANGED <<scenario, env, files, raised, lc, call, researcher, handles, tasks, session>>
  /\ UNCHANGED wfvars
  /\ UNCHANGED orchvars

CreateWorkingAgents ==
  /\ scenario = "devui"
  /\ ~dev.created
  /\ LET ini == LangChainInitialize(NewLangChainBlogAgent, env)
         blog_ok == env.langchain /\ ~ini.raised
         created ==
           (IF blog_ok THEN <<"BlogAgentForDevUI">> ELSE <<>>)
           \o (IF env.agent_framework
               THEN <<"ResearcherAgentForDevUI">> ELSE <<>>)
           \o <<"OrchestratorAgentForDevUI">>
     IN \E k \in DOMAIN created :
          dev' = [dev EXCEPT
                    !.created = TRUE,
                    !.blog_lc = IF blog_ok THEN ini.lc ELSE @,
                    !.agents = created,
                    !.entity = created[k]]
  /\ UNCHANGED <<scenario, env, files, raised, lc, call, researcher, handles, tasks, session>>
  /\ UNCHANGED wfvars
  /\ UNCHANGED orchvars

\* the wrappers share no object: a session is followed on the one entity
\* of the served list that the user selected
Served(wrapper) == dev.entity = wrapper

\* the record of one call of a wrapper's run (stream = FALSE) or run_stream:
\* the argument, the text handed to the wrapped agent, what the caller got,
\* and whether run's except clause produced it
DevCall(wrapper, stream, query, passed, done, value, error) ==
  [method |-> IF stream THEN "devui_run_stream" ELSE "devui_run",
   wrapper |-> wrapper, raised |-> FALSE, query |-> query, passed |-> passed,
   done |-> done,
   value |-> IF stream /\ done THEN StreamChunk(FALSE, value, NoExc)
             ELSE value,
   error |-> error]

DevBlogRun ==
  /\ scenario = "devui"
  /\ dev.pc = "idle"
  /\ Served("BlogAgentForDevUI")
  /\ \E query \in Queries, stream \in BOOLEAN :
       LET query_text == ExtractQuery(query)
       IN \E o \in LangChainRun(dev.blog_lc, env) :
            /\ call' = DevCall("BlogAgentForDevUI", stream, query, query_text,
                               TRUE,
                               IF o.raised THEN BlogWrapperError(o.err)
                               ELSE UnwrapBlogResponse(o.value),
                               o.raised)
            /\ dev' = [dev EXCEPT !.blog_lc = o.lc]
  /\ UNCHANGED <<scenario, env, files, raised, lc, researcher, handles, tasks, session>>
  /\ UNCHANGED wfvars
  /\ UNCHANGED orchvars

DevResearcherRun ==
  /\ scenario = "devui"
  /\ dev.pc = "idle"
  /\ Served("ResearcherAgentForDevUI")
  /\ \E query \in Queries, stream \in BOOLEAN :
       LET query_text == ExtractQuery(query)
           ini == IF dev.r_initialized
                  THEN [raised |-> FALSE, err |-> NoExc, r |-> researcher]
                  ELSE ResearcherInitialize(researcher, env)
           W == "ResearcherAgentForDevUI"
       IN IF ini.raised
          THEN /\ call' = DevCall(W, stream, query, query_text, TRUE,
                                  ResearcherWrapperError(ini.err), TRUE)
               /\ researcher' = ini.r
               /\ UNCHANGED <<dev, handles>>
          ELSE \E o \in Research(ini.r, env) :
                 /\ call' = DevCall(W, stream, query, query_text, TRUE,
                                    IF o.raised
                                    THEN ResearcherWrapperError(o.err)
                                    ELSE o.value,
                                    o.raised)
                 /\ researcher' = o.r
                 /\ dev' = [dev EXCEPT
                              !.r_initialized = TRUE,
                              !.r_inits =
                                Counted(@, (IF dev.r_initialized THEN 0 ELSE 1)
                                           + (IF ini.r.agent THEN 0 ELSE 1))]
                 /\ handles' = [handles EXCEPT !.acquired =
                                  @ \cup (IF o.r.agent /\ ~researcher.agent
                                          THEN {"agent", "credential"}
                                          ELSE {})]
  /\ UNCHANGED <<scenario, env, files, raised, lc, tasks, session>>
  /\ UNCHANGED wfvars
  /\ UNCHANGED orchvars

\* OrchestratorAgentForDevUI.run up to the await of workflow.run inside
\* create_blog_from_topic
DevOrchestratorRun ==
  /\ scenario = "devui"
  /\ dev.pc = "idle"
  /\ Served("OrchestratorAgentForDevUI")
  /\ opc \in {"idle", "done", "raised"}
  /\ \E query \in Queries, stream \in BOOLEAN :
       LET query_text == ExtractQuery(query)
           W == "OrchestratorAgentForDevUI"
           ini == IF dev.o_initialized
                  THEN [raised |-> FALSE, err |-> NoExc,
                        research_agent |-> research_agent,
                        blog_agent |-> blog_agent, lc |-> lc]
                  ELSE OrchestratorInitialize(env, research_agent, blog_agent,
                                              lc)
           acquired == handles.acquired
                         \cup (IF dev.o_initialized THEN {}
                               ELSE AcquiredByInitialize(env))
           \* create_blog_from_topic calls initialize once more when a
           \* slot is still unset
           again == ini.research_agent = NoAgent \/ ini.blog_agent = NoAgent
           ini2 == OrchestratorInitialize(env, ini.research_agent,
                                          ini.blog_agent, ini.lc)
       IN IF ini.raised
          THEN /\ call' = DevCall(W, stream, query, query_text, TRUE,
                                  OrchestratorWrapperError(ini.err), TRUE)
               /\ research_agent' = ini.research_agent
               /\ blog_agent' = ini.blog_agent
               /\ lc' = ini.lc
               /\ handles' = [handles EXCEPT !.acquired = acquired]
               /\ UNCHANGED <<dev, opc, workflow_results, raised>>
               /\ UNCHANGED wfvars
          ELSE /\ call' = DevCall(W, stream, query, query_text, FALSE, NoneV,
                                  FALSE)
               /\ dev' = [dev EXCEPT
                            !.o_initialized = TRUE,
                            !.pc = "orchestrating",
                            !.o_inits =
                              Counted(@, (IF dev.o_initialized THEN 0 ELSE 1)
                                         + (IF again /\ ~ini2.raised THEN 1
                                            ELSE 0))]
               /\ CreateBlogEnter(PyStr(query_text), ini.research_agent,
                                  ini.blog_agent, ini.lc, acquired)
  /\ UNCHANGED <<scenario, env, files, researcher, tasks, session>>

\* create_blog_from_topic returned its dictionary
DevOrchestratorReturn ==
  /\ dev.pc = "orchestrating"
  /\ opc = "done"
  /\ call' = DevCall(call.wrapper, call.method = "devui_run_stream",
                     call.query, call.passed, TRUE,
                     CombinedResult(workflow_results), FALSE)
  /\ dev' = [dev EXCEPT !.pc = "idle"]
  /\ UNCHANGED <<scenario, env, files, raised, lc, researcher, handles, tasks, session>>
  /\ UNCHANGED wfvars
  /\ UNCHANGED orchvars

\* create_blog_from_topic raised: run's except clause
DevOrchestratorCatch ==
  /\ dev.pc = "orchestrating"
  /\ opc = "raised"
  /\ call' = DevCall(call.wrapper, call.method = "devui_run_stream",
                     call.query, call.passed, TRUE,
                     OrchestratorWrapperError(raised), TRUE)
  /\ dev' = [dev EXCEPT !.pc = "idle"]
  /\ UNCHANGED <<scenario, env, files, raised, lc, researcher, handles, tasks, session>>
  /\ UNCHANGED wfvars
  /\ UNCHANGED orchvars

(***************************************************************************)
(* interactive_session, interactive_blog_creation, demo_orchestration      *)
(***************************************************************************)
DemoTopic ==
  <<"E","d","g","e"," ","C","o","m","p","u","t","i","n","g"," ","i","n"," ","I","o","T"," ","A","p","p","l","i","c","a","t","i","o","n","s">>

\* lines the user may type at the prompt of interactive_blog_creation
BlogInputs == {<<" ","Q","u","i","t"," ">>, <<"q">>, <<" ">>, <<" ","a","i">>}
BlogExits == {<<"q","u","i","t">>, <<"e","x","i","t">>, <<"q">>}

\* lines the user may type at the prompt of interactive_session
ResearchInputs == {<<"B","y","e"," ">>, <<>>, <<"S","t","r","e","a","m"," ","a","i">>, <<"a","i">>}
ResearchExits == {<<"e","x","i","t">>, <<"q","u","i","t">>, <<"b","y","e">>, <<>>}
StreamPrefix == <<"s","t","r","e","a","m"," ">>

\* research_stream: same lazy initialize, the chunks are printed
ResearchStream(r, e) == {[o EXCEPT !.value = NoneV] : o \in Research(r, e)}

\* a step of the session function that touches nothing but its own position
SessionOnly ==
  /\ UNCHANGED <<scenario, env, files, raised, lc, call, dev, researcher, handles,
                 tasks>>
  /\ UNCHANGED wfvars
  /\ UNCHANGED orchvars

Leave(cause) == [session EXCEPT !.pc = "finally", !.cause = cause]

\* the inner handler of interactive_blog_creation lets the exception go
OnCreateError_Propagate(s) == [s EXCEPT !.pc = "finally", !.cause = "error"]

\* the inner except of interactive_blog_creation: print, next iteration
OnCreateError(s) == [s EXCEPT !.pc = "prompt"]

InteractiveSessionStart ==
  /\ scenario = "session"
  /\ session.pc = "none"
  /\ LET ini == ResearcherInitialize(researcher, env)
     IN /\ researcher' = ini.r
        /\ raised' = ini.err
        /\ handles' = [handles EXCEPT !.acquired =
                         @ \cup (IF ini.raised THEN {}
                                 ELSE {"agent", "credential"})]
        /\ session' = [kind |-> "interactive_session",
                       pc |-> IF ini.raised THEN "finally" ELSE "prompt",
                       cause |-> IF ini.raised THEN "error" ELSE "none",
                       cleanups |-> 0]
  /\ UNCHANGED <<scenario, env, files, lc, call, dev, tasks>>
  /\ UNCHANGED wfvars
  /\ UNCHANGED orchvars

InteractiveSessionPrompt ==
  /\ session.kind = "interactive_session"
  /\ session.pc = "prompt"
  /\ \E line \in ResearchInputs :
       LET user_input == Strip(line)
           stream == IsPrefix(StreamPrefix, Lower(user_input))
           query == IF stream
                    THEN SubSeq(user_input, Len(StreamPrefix) + 1,
                                Len(user_input))
                    ELSE user_input
       IN IF Lower(user_input) \in ResearchExits
          THEN /\ session' = Leave("quit")
               /\ UNCHANGED <<researcher, raised, call>>
          ELSE \E o \in IF stream THEN ResearchStream(researcher, env)
                        ELSE Research(researcher, env) :
                 /\ call' = [method |-> IF stream THEN "research_stream"
                                        ELSE "research",
                             raised |-> o.raised, value |-> o.value,
                             query |-> query]
                 /\ raised' = o.err
                 /\ researcher' = o.r
                 /\ session' = IF o.raised THEN Leave("error") ELSE session
  /\ UNCHANGED <<scenario, env, files, lc, dev, handles, tasks>>
  /\ UNCHANGED wfvars
  /\ UNCHANGED orchvars

InteractiveBlogStart ==
  /\ scenario = "session"
  /\ session.pc = "none"
  /\ session' = [kind |-> "interactive_blog_creation", pc |-> "prompt",
                 cause |-> "none", cleanups |-> 0]
  /\ SessionOnly

InteractiveBlogPrompt ==
  /\ session.kind = "interactive_blog_creation"
  /\ session.pc = "prompt"
  /\ \E line \in BlogInputs :
       LET topic == Strip(line)
       IN IF Lower(topic) \in BlogExits
          THEN session' = Leave("quit") /\ SessionOnly
          ELSE IF topic = <<>>
          THEN UNCHANGED session /\ SessionOnly
          ELSE /\ session' = [session EXCEPT !.pc = "creating"]
               /\ CreateBlogEnter(topic, research_agent, blog_agent, lc,
                                  handles.acquired)
               /\ UNCHANGED <<scenario, env, files, call, dev, researcher, tasks>>

DemoStart ==
  /\ scenario = "session"
  /\ session.pc = "none"
  /\ session' = [kind |-> "demo_orchestration", pc |-> "creating",
                 cause |-> "none", cleanups |-> 0]
  /\ CreateBlogEnter(DemoTopic, research_agent, blog_agent, lc,
                     handles.acquired)
  /\ UNCHANGED <<scenario, env, files, call, dev, researcher, tasks>>

\* create_blog_from_topic returned: the session prints the result
BlogCreated ==
  /\ session.pc = "creating"
  /\ opc = "done"
  /\ session' =
       IF session.kind = "interactive_blog_creation"
       THEN [session EXCEPT !.pc = "prompt"]
       \* the demo takes len() of the research content for its preview
       ELSE IF workflow_results.research.content.tag = "str"
       THEN Leave("done")
       ELSE Leave("error")
  /\ SessionOnly

\* create_blog_from_topic raised
BlogCreateFailed ==
  /\ session.pc = "creating"
  /\ opc = "raised"
  /\ session' = IF session.kind = "interactive_blog_creation"
                THEN OnCreateError(session)
                ELSE Leave("error")
  /\ SessionOnly

\* input() raises EOFError
SessionInputFails ==
  /\ session.kind \in {"interactive_session", "interactive_blog_creation"}
  /\ session.pc = "prompt"
  /\ session' = Leave("error")
  /\ SessionOnly

\* Ctrl-C at the prompt or while a blog post is being created: whatever is
\* running is abandoned
SessionInterrupt ==
  /\ session.pc \in {"prompt", "creating"}
  /\ session' = Leave("interrupt")
  /\ IF opc = "workflow"
     THEN /\ opc' = "raised"
          /\ pc' = "raised"
          /\ outstanding' = {}
          /\ raised' = Exc("KeyboardInterrupt", <<>>)
          /\ UNCHANGED <<agents, i, initial_input, current_input, results,
                         invoked, replies, cancel, research_agent, blog_agent,
                         workflow_results>>
     ELSE UNCHANGED raised /\ UNCHANGED wfvars /\ UNCHANGED orchvars
  /\ UNCHANGED <<scenario, env, files, lc, call, dev, researcher, handles, tasks>>

\* the finally clause: await cleanup()
SessionFinally ==
  /\ session.pc = "finally"
  /\ session' = [session EXCEPT !.pc = "ended", !.cleanups = @ + 1]
  /\ IF session.kind = "interactive_session"
     THEN ResearcherClose
     ELSE OrchestratorClose /\ UNCHANGED researcher
  /\ UNCHANGED <<scenario, env, files, raised, lc, call, dev, tasks>>
  /\ UNCHANGED wfvars
  /\ UNCHANGED orchvars

(***************************************************************************)
(* setup.py                                                                *)
(***************************************************************************)
\* what the user may type at the "Overwrite? (y/N): " prompt
Answers ==
  {<<"y">>, <<" ", "Y", " ">>, <<"\t", "y">>, <<>>, <<"n">>, <<"N", " ">>,
   <<"y", "e", "s">>, <<" ", "y", " ", "y">>}

\* an answer taken for yes whenever it begins with the letter
overwrite_FirstLetter(answer) ==
  LET o == Lower(Strip(answer)) IN IF o = <<>> THEN o ELSE <<Head(o)>>

\* overwrite = input(...).strip().lower()
overwrite(answer) == Lower(Strip(answer))

\* how the copy of the try block goes: done, open or read of .env.example
\* raises, open of .env for writing raises, or write raises after the
\* open truncated .env
CopyOutcomes == {"done", "read_raises", "open_raises", "write_raises"}

\* setup_environment; prompted tells whether input() was called, answer
\* is what it returned
SetupReturn(prompted, answer, copy, value) ==
  [method |-> "setup_environment", raised |-> FALSE, value |-> BoolV(value),
   prompted |-> prompted, answer |-> answer, copy |-> copy, before |-> files]

SetupEnvironment ==
  /\ scenario = "setup"
  /\ IF files.example = Absent
     THEN /\ call' = SetupReturn(FALSE, <<>>, "none", FALSE)
          /\ UNCHANGED files
     ELSE LET prompted == files.dotenv # Absent
          IN \E answer \in IF prompted THEN Answers ELSE {<<>>} :
               IF prompted /\ overwrite(answer) # <<"y">>
               THEN /\ call' = SetupReturn(TRUE, answer, "none", TRUE)
                    /\ UNCHANGED files
               ELSE \E copy \in CopyOutcomes :
                      /\ call' = SetupReturn(prompted, answer, copy, copy = "done")
                      /\ CASE copy = "done" ->
                                files' = [files EXCEPT !.dotenv = files.example]
                           [] copy = "write_raises" ->
                                \E n \in 0..(Len(files.example.s) - 1) :
                                  files' =
                                    [files EXCEPT
                                       !.dotenv =
                                         StrV(SubSeq(files.example.s, 1, n))]
                           [] OTHER -> UNCHANGED files
  /\ UNCHANGED <<scenario, env, raised, lc, dev, researcher, handles, tasks,
                 session>>
  /\ UNCHANGED wfvars
  /\ UNCHANGED orchvars

(***************************************************************************)
(* researcher_with_tools.py                                                *)
(***************************************************************************)
\* the simulated search results, by the words their titles begin with
papers ==
  <<"Advanced Research in", "Machine Learning Applications in",
    "Emerging Trends in">>

\* max_results is a Python int; the values tried are -MaxResults..MaxResults
MaxResults == 4

\* seq[:stop] of Python: a negative stop counts from the end
SliceTo(seq, stop) ==
  LET end == IF stop >= 0
             THEN (IF stop < Len(seq) THEN stop ELSE Len(seq))
             ELSE (IF Len(seq) + stop > 0 THEN Len(seq) + stop ELSE 0)
  IN SubSeq(seq, 1, end)

Min(a, b) == IF a <= b THEN a ELSE b

\* limited_papers = papers[:min(max_results, len(papers))]
limited_papers(max_results) ==
  SliceTo(papers, Min(max_results, Len(papers)))

\* the returned text: the "Found N academic papers related to 'topic':" line
\* and one numbered entry per paper of the limited list
SearchResult(topic, listed) ==
  [found |-> Len(listed), topic |-> topic,
   entries |-> [k \in DOMAIN listed |-> [number |-> k, title |-> listed[k]]]]

search_academic_papers ==
  /\ scenario = "tools"
  /\ \E topic \in Topics, max_results \in (0 - MaxResults)..MaxResults :
       call' = [method |-> "search_academic_papers", raised |-> FALSE,
                topic |-> topic, max_results |-> max_results,
                value |-> SearchResult(topic, limited_papers(max_results))]
  /\ UNCHANGED <<scenario, env, files, raised, lc>>
  /\ UNCHANGED wfvars
  /\ UNCHANGED orchvars
  /\ UNCHANGED extvars

(***************************************************************************)
(* utils.py                                                                *)
(***************************************************************************)
\* the words print_error_help looks for, and the section each pair selects
AuthenticationWords ==
  {<<"c","r","e","d","e","n","t","i","a","l">>,
   <<"a","u","t","h","e","n","t","i","c","a","t","i","o","n">>}
EndpointWords ==
  {<<"e","n","d","p","o","i","n","t">>,
   <<"p","r","o","j","e","c","t">>}
ModelWords ==
  {<<"m","o","d","e","l">>,
   <<"d","e","p","l","o","y","m","e","n","t">>}

Mentions(error_str, words) == \E w \in words : Contains(error_str, w)

\* str(error) of the exceptions handed to print_error_help
ErrorMessages ==
  {<<"C","r","e","d","e","n","t","i","a","l"," ","x">>,
   <<"n","o"," ","A","U","T","H","E","N","T","I","C","A","T","I","O","N"," ","f","o","r"," ","e","n","d","p","o","i","n","t">>,
   <<"E","n","d","p","o","i","n","t">>,
   <<"p","r","o","j","e","c","t"," ","m","o","d","e","l">>,
   <<"r","e","m","o","d","e","l">>,
   <<"D","e","p","l","o","y","m","e","n","t">>,
   <<"m","o","d","e","l"," ","c","r","e","d","e","n","t","i","a","l","s">>,
   <<"t","i","m","e","o","u","t">>,
   <<>>}

\* independent if statements in place of the if/elif chain
HelpSections_EveryMatch(error) ==
  LET error_str == Lower(error.msg)
      matched ==
        (IF Mentions(error_str, AuthenticationWords)
         THEN <<"Authentication Issue">> ELSE <<>>)
        \o (IF Mentions(error_str, EndpointWords)
            THEN <<"Endpoint/Project Issue">> ELSE <<>>)
        \o (IF Mentions(error_str, ModelWords)
            THEN <<"Model/Deployment Issue">> ELSE <<>>)
  IN IF matched = <<>> THEN <<"Configuration Error">> ELSE matched

\* the headings of the help printed after the "Error: ..." line;
\* "Configuration Error" is the heading of print_setup_instructions
HelpSections(error) ==
  LET error_str == Lower(error.msg)
  IN IF Mentions(error_str, AuthenticationWords)
     THEN <<"Authentication Issue">>
     ELSE IF Mentions(error_str, EndpointWords)
     THEN <<"Endpoint/Project Issue">>
     ELSE IF Mentions(error_str, ModelWords)
     THEN <<"Model/Deployment Issue">>
     ELSE <<"Configuration Error">>

print_error_help ==
  /\ scenario = "utils"
  /\ \E msg \in ErrorMessages :
       LET error == Exc("Exception", msg)
       IN call' = [method |-> "print_error_help", raised |-> FALSE,
                   value |-> NoneV, error |-> error,
                   printed |-> HelpSections(error)]
  /\ UNCHANGED <<scenario, env, files, raised, lc>>
  /\ UNCHANGED wfvars
  /\ UNCHANGED orchvars
  /\ UNCHANGED extvars

Next ==
  \/ Construct
  \/ ConstructAny
  \/ Run
  \/ StageCall
  \/ StageReturn
  \/ StageRaise
  \/ RunReturn
  \/ CreateBlogFromTopic
  \/ CreateBlogReturn
  \/ CreateBlogRaise
  \/ BlogAgentInitialize
  \/ BlogAgentRun
  \/ BlogAgentSyncRun
  \/ Normalize
  \/ Renormalize
  \/ cleanup
  \/ ResearcherResearch
  \/ ResearcherCleanup
  \/ CreateWorkingAgents
  \/ DevBlogRun
  \/ DevResearcherRun
  \/ DevOrchestratorRun
  \/ DevOrchestratorReturn
  \/ DevOrchestratorCatch
  \/ InteractiveSessionStart
  \/ InteractiveSessionPrompt
  \/ InteractiveBlogStart
  \/ InteractiveBlogPrompt
  \/ DemoStart
  \/ BlogCreated
  \/ BlogCreateFailed
  \/ SessionInputFails
  \/ SessionInterrupt
  \/ SessionFinally
  \/ SetupEnvironment
  \/ search_academic_papers
  \/ print_error_help

Spec == Init /\ [][Next]_vars

(***************************************************************************)
(* Cancellation of the task that executes a run                            *)
(***************************************************************************)
\* the entry points run reaches through an await expression
Awaited == {"get_response", "async_run", "call"}

\* Task.cancel() while stage i is executing
RequestCancel ==
  /\ pc = "awaiting"
  /\ ~cancel.requested
  /\ cancel' = [requested |-> TRUE, stage |-> i]
  /\ UNCHANGED <<scenario, env, files, agents, pc, i, initial_input, current_input,
                 results, raised, invoked, outstanding, replies, lc, call>>
  /\ UNCHANGED orchvars
  /\ UNCHANGED extvars

\* the pending await of the stage raises CancelledError, which leaves run
\* like any other exception; a stage called without await has no
\* suspension point where it could be delivered
StageCancelled ==
  /\ pc = "awaiting"
  /\ cancel.requested
  /\ EntryPoint(agents[i + 1]) \in Awaited
  /\ raised' = Exc("CancelledError", <<>>)
  /\ outstanding' = outstanding \ {i}
  /\ pc' = "raised"
  /\ UNCHANGED <<scenario, env, files, agents, i, initial_input, current_input,
                 results, invoked, replies, lc, call, cancel>>
  /\ UNCHANGED orchvars
  /\ UNCHANGED extvars

InitCancel == InitIn({"workflow"})

NextCancel ==
  \/ Construct
  \/ Run
  \/ StageCall
  \/ StageReturn
  \/ StageRaise
  \/ RunReturn
  \/ RequestCancel
  \/ StageCancelled

SpecCancel == InitCancel /\ [][NextCancel]_vars

(***************************************************************************)
(* Two tasks executing run on the same SequentialWorkflow, interleaved     *)
(* wherever the model has a step boundary (a superset of the await points) *)
(***************************************************************************)
\* the workflows used: two stages, any pair of duck-typed agents
TwoStageLists == {<<first, second>> : first, second \in AgentPool}

\* replies of the stateless agents to a call of stage k
TaskReplies(k) ==
  {x \in RawReplies(k) :
     x.tag = "str" \/ (x.tag = "obj" /\ x.content # Absent /\ x.text # Absent)}

Other(r) == 3 - r
Active(r) == tasks.pos[r].pc \in {"loop", "awaiting"}

\* locals kept in one place for every run of the workflow
Frame_Shared(r) == 1

\* where the locals of task r live: in the frame of its own call of run
Frame(r) == r

ConstructTasks ==
  /\ scenario = "tasks"
  /\ pc = "unbuilt"
  /\ \E list \in TwoStageLists : agents' = list
  /\ pc' = "idle"
  /\ UNCHANGED <<scenario, env, files, i, initial_input, current_input, results,
                 raised, invoked, outstanding, replies, lc, call, cancel>>
  /\ UNCHANGED orchvars
  /\ UNCHANGED extvars

TaskFrame ==
  /\ UNCHANGED <<scenario, env, files, raised, lc, call, dev, researcher, handles,
                 session>>
  /\ UNCHANGED wfvars
  /\ UNCHANGED orchvars

\* entry of run in task r
TaskEnter ==
  /\ scenario = "tasks"
  /\ pc = "idle"
  /\ \E r \in RunIds, topic \in Topics :
       /\ tasks.pos[r].pc \in {"idle", "returned", "raised"}
       /\ tasks' =
            [tasks EXCEPT
               !.pos[r] = [pc |-> "loop", i |-> 0],
               !.data[Frame(r)] =
                 [current_input |-> FirstInput(topic),
                  results |-> FreshResults(@.results)],
               !.hist[r] = [NoHistory EXCEPT !.topic = topic,
                                             !.overlapped = Active(Other(r))],
               !.hist[Other(r)].overlapped = @ \/ Active(Other(r))]
  /\ TaskFrame

\* task r calls the entry point of its stage with its current input
TaskStageCall ==
  /\ \E r \in RunIds :
       /\ tasks.pos[r].pc = "loop"
       /\ tasks.pos[r].i < Len(agents)
       /\ tasks' =
            [tasks EXCEPT
               !.pos[r].pc = "awaiting",
               !.hist[r].inputs =
                 Append(@, tasks.data[Frame(r)].current_input)]
  /\ TaskFrame

\* the call of task r returns: unwrap, append, build the next input
TaskStageReturn ==
  /\ \E r \in RunIds :
       /\ tasks.pos[r].pc = "awaiting"
       /\ LET k == tasks.pos[r].i
              d == tasks.data[Frame(r)]
          IN \E reply \in TaskReplies(k) :
               LET result == Unwrap(EntryPoint(agents[k + 1]), reply)
               IN tasks' =
                    [tasks EXCEPT
                       !.pos[r] = [pc |-> "loop", i |-> k + 1],
                       !.data[Frame(r)] =
                         [results |-> Collect(d.results, result),
                          current_input |->
                            NextInput(k, Len(agents), result,
                                      d.current_input)],
                       !.hist[r].produced = Append(@, reply)]
  /\ TaskFrame

\* the call of task r raises and ends its run
TaskStageRaise ==
  /\ \E r \in RunIds :
       /\ tasks.pos[r].pc = "awaiting"
       /\ tasks' = [tasks EXCEPT !.pos[r].pc = "raised"]
  /\ TaskFrame

\* the loop of task r is exhausted: its caller gets the list
TaskRunReturn ==
  /\ \E r \in RunIds :
       /\ tasks.pos[r].pc = "loop"
       /\ tasks.pos[r].i = Len(agents)
       /\ tasks' =
            [tasks EXCEPT
               !.pos[r].pc = "returned",
               !.hist[r].returned = tasks.data[Frame(r)].results]
  /\ TaskFrame

InitTasks == InitIn({"tasks"})

NextTasks ==
  \/ ConstructTasks
  \/ TaskEnter
  \/ TaskStageCall
  \/ TaskStageReturn
  \/ TaskStageRaise
  \/ TaskRunReturn

SpecTasks == InitTasks /\ [][NextTasks]_vars

(***************************************************************************)
(* Properties                                                              *)
(***************************************************************************)
Stages == 1..Len(replies)
EntryOf(k) == EntryPoint(agents[k])
HasBoth(r) ==
  hasattr(r, "content") /\ hasattr(r, "text") /\ r.content # r.text
IsErrorText(v) == v.tag = "str" /\ IsPrefix(ErrorGeneratingPrefix, v.s)
\* the metadata a reply object exposes, empty for a str, None or no field
ExposedMetadata(r) ==
  IF r.tag = "obj" /\ r.metadata # Absent THEN r.metadata ELSE EmptyMap

\* C1: an exception raised by the call of a stage's agent never leaves the
\* run; the run (and create_blog_from_topic around it) ends by returning,
\* with an error reply recorded for the failed stage.  (A slot holding no
\* agent at all is left aside here.)
C1_StageExceptionIsCaught ==
  /\ (pc = "raised" => agents[i + 1] = NoAgent)
  /\ (raised # NoExc /\ pc = "returned" =>
        /\ Len(results) = Len(replies) + 1
        /\ results[Len(results)].tag = "str")

\* C2: when a stage's reply is an error-text reply, the status returned by
\* create_blog_from_topic is "failed".
C2_ErrorReplyGivesFailedStatus ==
  (opc = "done" /\ \E k \in Stages : IsErrorText(extract_content(replies[k])))
    => workflow_results.workflow_status = "failed"

\* C3: every stage after the first receives the prompt template applied to
\* the normalized text of the stage just before it.
C3_StageInputFromPreviousStage ==
  \A j \in 2..Len(invoked) :
    invoked[j].input = PromptTemplate(ResearchContent(results[j - 1]))

\* C4: a reply exposing both content and text, with different values, is
\* recorded as its content value on the get_response, async run, sync_run
\* and plain run paths, and extract_content of it is its content value.
C4_ContentBeforeText ==
  \A k \in Stages :
    HasBoth(replies[k]) =>
      /\ (EntryOf(k) \in {"get_response", "async_run", "sync_run", "run"}
            => results[k] = replies[k].content)
      /\ extract_content(replies[k]) = replies[k].content

\* C5: the metadata create_blog_from_topic reports for a stage is the
\* mapping exposed by the reply object of that stage, and empty only for a
\* str or None reply or an object without a metadata field.
C5_MetadataOfReplyObject ==
  opc = "done" =>
    /\ workflow_results.research.metadata = ExposedMetadata(replies[1])
    /\ workflow_results.blog_post.metadata = ExposedMetadata(replies[2])

\* C6: no SequentialWorkflow exists with an empty agent list, so none is
\* ever run.
C6_EmptyStageListRejected ==
  pc # "unbuilt" => Len(agents) > 0

\* C7: no call of LangChainBlogAgent.run or sync_run ends by raising,
\* whether called directly or as a stage of the workflow.
C7_BlogAgentNeverRaises ==
  /\ (call.method \in {"run", "sync_run"} => ~call.raised)
  /\ (pc = "raised" => agents[i + 1].impl # "langchain")

\* C8: a run in which every stage returned yields one reply per stage,
\* reply k being the unwrapped reply of stage k, and the status reported by
\* create_blog_from_topic is "completed".
C8_OneReplyPerStage ==
  /\ (pc = "returned" =>
        /\ Len(results) = Len(agents)
        /\ Len(replies) = Len(agents)
        /\ \A k \in 1..Len(agents) : results[k] = Unwrap(EntryOf(k), replies[k]))
  /\ (opc = "done" =>
        /\ workflow_results.workflow_status = "completed"
        /\ workflow_results.research.content = extract_content(results[1])
        /\ workflow_results.blog_post.content = extract_content(results[2]))

C8_Witness ==
  /\ opc = "done"
  /\ Len(results) = 2
  /\ results[1] # results[2]

\* C9: within a run at most one agent call is outstanding, the stages are
\* invoked in index order, and a stage is invoked only after every earlier
\* stage has returned.
C9_StagesStrictlySequential ==
  /\ Cardinality(outstanding) <= 1
  /\ \A j \in 1..Len(invoked) : invoked[j].stage = j - 1
  /\ Len(invoked) <= Len(replies) + 1
  /\ (outstanding # {} => Len(invoked) = Len(replies) + 1)

C9_Witness ==
  /\ pc = "awaiting"
  /\ outstanding = {1}
  /\ Len(replies) = 1

\* C10: the first stage receives the topic exactly as it was given to run,
\* also when the topic is empty or only whitespace.
C10_TopicVerbatim ==
  /\ (Len(invoked) >= 1 => invoked[1].input = initial_input)
  /\ (pc = "loop" /\ i = 0 => current_input = initial_input)

C10_Witness ==
  /\ opc = "workflow"
  /\ Len(invoked) >= 1
  /\ invoked[1].input = <<" ">>

\* C11: every element of the list run returns, and every content value
\* create_blog_from_topic returns, is a str and never None or a reply
\* object, whichever entry point produced the reply.
C11_ResultsAreStrings ==
  /\ (pc = "returned" => \A k \in 1..Len(results) : results[k].tag = "str")
  /\ (opc = "done" =>
        /\ workflow_results.research.content.tag = "str"
        /\ workflow_results.blog_post.content.tag = "str")

\* C12: extraction from None gives "No content generated" and the empty
\* mapping; extraction from a str gives that str and the empty mapping.
C12_NoneAndStringExtraction ==
  /\ (call.method \in {"normalize", "renormalize"} =>
        /\ (call.raw = NoneV =>
              call.value = StrV(NoContentGenerated) /\ call.metadata = EmptyMap)
        /\ (call.raw.tag = "str" =>
              call.value = call.raw /\ call.metadata = EmptyMap))
  /\ (opc = "done" /\ results[1] = NoneV =>
        /\ workflow_results.research.content = StrV(NoContentGenerated)
        /\ workflow_results.research.metadata = EmptyMap)
  /\ (opc = "done" /\ results[2].tag = "str" =>
        /\ workflow_results.blog_post.content = results[2]
        /\ workflow_results.blog_post.metadata = EmptyMap)

C12_Witness ==
  /\ opc = "done"
  /\ results[1] = NoneV
  /\ results[2].tag = "str"

\* C13: each DevUI wrapper's run (and run_stream, which calls run) hands
\* the wrapped agent the argument's content attribute when it has one,
\* else its text attribute, else the argument itself when it is a string,
\* else its string conversion; the orchestrator wrapper's text is the
\* topic its workflow starts from
DevMethods == {"devui_run", "devui_run_stream"}

C13_QueryTextPriority ==
  call.method \in DevMethods =>
    LET q == call.query
        has_content == q.tag = "obj" /\ q.content # Absent
        has_text == q.tag = "obj" /\ q.text # Absent
    IN /\ has_content => call.passed = q.content
       /\ ~has_content /\ has_text => call.passed = q.text
       /\ q.tag = "str" => call.passed = q
       /\ q.tag = "obj" /\ ~has_content /\ ~has_text
            => call.passed = StrV(ObjRepr)
       /\ dev.pc = "orchestrating" /\ opc = "workflow"
            => initial_input = call.passed.s

C13_Witness ==
  /\ call.method = "devui_run"
  /\ call.wrapper = "OrchestratorAgentForDevUI"
  /\ call.query.tag = "obj"
  /\ call.query.content # Absent
  /\ call.query.text # Absent
  /\ dev.pc = "orchestrating"
  /\ pc = "awaiting"

\* C14: once cleanup() has run, a close has been attempted on every handle
\* that initialize() acquired (the agent clients and the Azure CLI
\* credential), whether or not an earlier close raised
C14_CleanupAttemptsEveryClose ==
  /\ scenario = "orchestrator" /\ opc = "cleaned"
       => handles.acquired \subseteq handles.attempted
  /\ scenario = "researcher" /\ researcher.cleaned
       => handles.acquired \subseteq handles.attempted

\* C15: the text of every error reply of an adapter (LangChainBlogAgent.run
\* and sync_run, the DevUI wrappers' run and run_stream) begins with the
\* one marker "Error: "
ErrorMarker == <<"E","r","r","o","r",":"," ">>

C15_ErrorRepliesShareMarker ==
  /\ call.method \in {"run", "sync_run"} /\ ~call.raised
       /\ IsErrorReply(call.value)
       => IsPrefix(ErrorMarker, PyStr(call.value.text))
  /\ call.method \in DevMethods /\ call.done /\ call.error
       => IsPrefix(ErrorMarker, PyStr(call.value))

\* C20: extract_content and extract_metadata applied to the string that a
\* previous extract_content produced give that same string and the empty
\* metadata mapping
C20_NormalizationIdempotent ==
  call.method = "renormalize" /\ call.raw.tag = "str"
    => call.value = call.raw /\ call.metadata = EmptyMap

C20_Witness ==
  /\ call.method = "renormalize"
  /\ call.raw = StrV(NoContentGenerated)
  /\ call.value.tag = "str"

\* C18: no step of a run changes the workflow's agent list (same agents,
\* same order as at construction), and a run entered after an earlier one
\* starts from an empty result list: nothing of the earlier run's list is
\* kept by the workflow
C18_RunLeavesWorkflowUnchanged ==
  [][scenario = "workflow" =>
       /\ pc # "unbuilt" => agents' = agents
       /\ pc \in {"idle", "returned", "raised"} /\ pc' = "loop"
            => results' = <<>>]_vars

C18_Witness ==
  /\ scenario = "workflow"
  /\ pc = "returned"
  /\ Len(agents) = 2
  /\ Len(results) = 2
  /\ agents[1] # agents[2]

\* C16: when cancellation is requested while stage i executes, the agent
\* of no later stage is invoked in that run
C16_NoStageAfterCancel ==
  cancel.requested =>
    \A j \in DOMAIN invoked : invoked[j].stage <= cancel.stage

\* C17: of two runs interleaved on one workflow, each returns exactly the
\* unwrapped replies that the agents produced for its own calls, in stage
\* order, and each of its stages was called with its own topic or with the
\* input built from its own first reply
OwnResults(r) ==
  [k \in 1..Len(tasks.hist[r].produced) |->
     Unwrap(EntryPoint(agents[k]), tasks.hist[r].produced[k])]

OwnInput(r, k) ==
  IF k = 1 THEN tasks.hist[r].topic
  ELSE PromptTemplate(ResearchContent(OwnResults(r)[1]))

C17_RunsDoNotMix ==
  \A r \in RunIds :
    /\ tasks.pos[r].pc = "returned"
         => /\ tasks.hist[r].returned = OwnResults(r)
            /\ Len(tasks.hist[r].returned) = Len(agents)
    /\ \A k \in DOMAIN tasks.hist[r].inputs :
         Len(tasks.hist[r].produced) >= k - 1
           => tasks.hist[r].inputs[k] = OwnInput(r, k)

C17_Witness ==
  /\ tasks.pos[1].pc = "returned"
  /\ tasks.pos[2].pc = "returned"
  /\ tasks.hist[1].overlapped
  /\ tasks.hist[2].overlapped
  /\ tasks.hist[1].topic # tasks.hist[2].topic
  /\ tasks.hist[1].returned # tasks.hist[2].returned

\* C19: two runs whose first stage gave the same text hand the same input
\* to the second stage, whatever their topics and whatever ran before
FirstText(r) == ResearchContent(OwnResults(r)[1])

C19_SecondInputFromFirstText ==
  \A r, q \in RunIds :
    /\ Len(tasks.hist[r].inputs) >= 2
    /\ Len(tasks.hist[q].inputs) >= 2
    /\ FirstText(r) = FirstText(q)
    => tasks.hist[r].inputs[2] = tasks.hist[q].inputs[2]

C19_Witness ==
  /\ Len(tasks.hist[1].inputs) >= 2
  /\ Len(tasks.hist[2].inputs) >= 2
  /\ tasks.hist[1].topic # tasks.hist[2].topic
  /\ FirstText(1) = FirstText(2)
  /\ tasks.hist[1].overlapped

\* C21: when the reply of a stage is an object with exactly one of the
\* fields content and text, the result recorded for the stage is the value
\* of that field, whatever entry point was called; extract_content gives
\* the value of that field too
OneField(v) ==
  /\ v.tag = "obj"
  /\ (v.content # Absent) # (v.text # Absent)

TheField(v) == IF v.content # Absent THEN v.content ELSE v.text

C21_SingleFieldIsRecorded ==
  /\ \A k \in DOMAIN results :
       k <= Len(replies) /\ OneField(replies[k])
         => results[k] = TheField(replies[k])
  /\ call.method = "normalize" /\ OneField(call.raw)
       => call.value = TheField(call.raw)

\* C22: while the workflow started by create_blog_from_topic runs, both
\* research_agent and blog_agent are set, and neither slot of the workflow
\* holds None
C22_WorkflowAgentsAreSet ==
  opc = "workflow" =>
    /\ research_agent # NoAgent
    /\ blog_agent # NoAgent
    /\ \A k \in DOMAIN agents : agents[k] # NoAgent

\* C23: over the lifetime of the researcher wrapper and of the orchestrator
\* wrapper, at most one call of the wrapped object's initialize() that
\* returns without raising is ever started
C23_InitializeAtMostOnce ==
  /\ dev.r_inits <= 1
  /\ dev.o_inits <= 1

\* C24: a session leaves its loop only by a quit command, an interrupt or
\* an unexpected error (the demo also by finishing); the step that follows
\* is one cleanup() call, no session ends with another number of them, and
\* after it no agent is called; in interactive_blog_creation a failed
\* create_blog_from_topic does not make the session leave its loop
C24_SessionEndsWithOneCleanup ==
  [][/\ session'.cleanups <= 1
     /\ session'.pc = "ended" => session'.cleanups = 1
     /\ session'.pc = "finally"
          => session'.cause \in {"quit", "interrupt", "error", "done"}
     /\ session.pc = "finally" /\ session'.pc # "finally"
          => session'.pc = "ended" /\ session'.cleanups = session.cleanups + 1
     /\ session.cleanups >= 1
          => UNCHANGED <<invoked, pc, opc, call, session>>
     /\ session.kind = "interactive_blog_creation"
          /\ session.pc = "creating" /\ opc = "raised"
          /\ session'.pc = "finally"
          => session'.cause = "interrupt"]_vars

C24_Witness ==
  /\ session.kind = "interactive_blog_creation"
  /\ session.pc = "ended"
  /\ session.cause = "quit"
  /\ session.cleanups = 1
  /\ opc = "raised"
  /\ raised.type = "ConnectionError"

\* C25: every stage of a run is invoked once, in order, through the first
\* entry point its agent offers in the order: coroutine get_response,
\* coroutine run, sync_run, plain run, and else a direct call of the agent
C25_OneEntryPointByPriority ==
  \A j \in DOMAIN invoked :
    LET a == agents[invoked[j].stage + 1]
        e == invoked[j].entry
        g == a.get_response = "coro"
        r == a.run = "coro"
    IN /\ invoked[j].stage = j - 1
       /\ g => e = "get_response"
       /\ ~g /\ r => e = "async_run"
       /\ ~g /\ ~r /\ a.sync_run => e = "sync_run"
       /\ ~g /\ ~r /\ ~a.sync_run /\ a.run = "plain" => e = "run"
       /\ ~g /\ ~r /\ ~a.sync_run /\ a.run = "none" => e = "call"

C25_Witness ==
  /\ scenario = "entry"
  /\ pc = "returned"
  /\ Len(invoked) = 2
  /\ agents[2].get_response = "coro"
  /\ agents[2].run = "coro"
  /\ agents[2].sync_run
  /\ invoked[2].entry = "get_response"

\* C26: with an endpoint configured, LangChainBlogAgent.initialize uses the
\* API key whenever one is set and then never asks the Azure CLI for a
\* token; it asks the CLI only when no key is set, and when that fails it
\* raises ValueError and the agent has no executor
C26_KeyBeforeCli ==
  call.method = "initialize" =>
    /\ call.cli => ~env.api_key
    /\ env.openai_endpoint /\ env.api_key
         => ~call.raised /\ lc.llm = "api_key" /\ lc.agent_executor
    /\ env.openai_endpoint /\ ~env.api_key => call.cli
    /\ env.openai_endpoint /\ ~env.api_key /\ env.cli_ok
         => ~call.raised /\ lc.llm = "ad_token" /\ lc.agent_executor
    /\ env.openai_endpoint /\ ~env.api_key /\ ~env.cli_ok
         => call.raised /\ raised.type = "ValueError" /\ ~lc.agent_executor

C26_Witness ==
  /\ call.method = "initialize"
  /\ env.api_key
  /\ env.cli_ok
  /\ lc.llm = "api_key"
  /\ ~call.cli

\* C27: the list returned by create_working_agents holds exactly the
\* wrappers whose creation succeeded, in the order blog, researcher,
\* orchestrator: a failed creation removes its own wrapper and no other
CreationOrder ==
  <<"BlogAgentForDevUI", "ResearcherAgentForDevUI", "OrchestratorAgentForDevUI">>

CreationSucceeds(wrapper) ==
  CASE wrapper = "BlogAgentForDevUI" ->
         env.langchain /\ env.openai_endpoint /\ (env.api_key \/ env.cli_ok)
    [] wrapper = "ResearcherAgentForDevUI" -> env.agent_framework
    [] wrapper = "OrchestratorAgentForDevUI" -> TRUE

Rank(wrapper) == CHOOSE r \in DOMAIN CreationOrder : CreationOrder[r] = wrapper

C27_ListIsTheSuccesses ==
  dev.created =>
    /\ \A r \in DOMAIN CreationOrder :
         (\E k \in DOMAIN dev.agents : dev.agents[k] = CreationOrder[r])
           <=> CreationSucceeds(CreationOrder[r])
    /\ \A j, k \in DOMAIN dev.agents :
         j < k => Rank(dev.agents[j]) < Rank(dev.agents[k])

C27_Witness ==
  /\ dev.created
  /\ ~env.langchain
  /\ env.agent_framework
  /\ dev.agents = <<"ResearcherAgentForDevUI", "OrchestratorAgentForDevUI">>

\* C28: setup_environment changes an existing .env only when the answer to
\* the overwrite prompt is the letter y in either case with nothing but
\* whitespace around it; after any other answer the file is what it was
\* and the function returns True
SaysYes(answer) ==
  \E j \in DOMAIN answer :
    /\ answer[j] \in {"y", "Y"}
    /\ \A k \in DOMAIN answer \ {j} : answer[k] \in Whitespace

C28_EnvKeptUnlessYes ==
  call.method = "setup_environment" /\ call.before.dotenv # Absent =>
    /\ files.dotenv # call.before.dotenv
         => call.prompted /\ SaysYes(call.answer)
    /\ call.prompted /\ ~SaysYes(call.answer)
         => files.dotenv = call.before.dotenv /\ call.value = BoolV(TRUE)
    /\ call.prompted /\ SaysYes(call.answer) /\ call.copy = "done"
         => files.dotenv = call.before.example

C28_Witness ==
  /\ call.method = "setup_environment"
  /\ call.before.dotenv = StrV(EditedText)
  /\ call.answer = <<"y", "e", "s">>
  /\ files.dotenv = StrV(EditedText)
  /\ call.value = BoolV(TRUE)

\* C29: the text returned by search_academic_papers lists no more papers
\* than max_results, whatever integer that is (none at all when it is zero
\* or negative), and the count of its "Found N" line is the number of
\* papers listed
C29_NoMoreThanMaxResults ==
  call.method = "search_academic_papers" =>
    /\ Len(call.value.entries)
         <= (IF call.max_results < 0 THEN 0 ELSE call.max_results)
    /\ call.value.found = Len(call.value.entries)

\* C30: print_error_help prints exactly one help section for an error: the
\* authentication help when the lower-cased message mentions credential or
\* authentication, otherwise the endpoint help when it mentions endpoint or
\* project, otherwise the model help when it mentions model or deployment,
\* otherwise the general setup instructions
Says(words) ==
  \E w \in words, k \in 0..Len(call.error.msg) :
    /\ k + Len(w) <= Len(call.error.msg)
    /\ \A j \in 1..Len(w) : LowerChar(call.error.msg[k + j]) = w[j]

C30_OneSectionFirstMatch ==
  call.method = "print_error_help" =>
    /\ Len(call.printed) = 1
    /\ call.printed[1] = "Authentication Issue" <=> Says(AuthenticationWords)
    /\ call.printed[1] = "Endpoint/Project Issue"
         <=> ~Says(AuthenticationWords) /\ Says(EndpointWords)
    /\ call.printed[1] = "Model/Deployment Issue"
         <=> /\ ~Says(AuthenticationWords)
             /\ ~Says(EndpointWords)
             /\ Says(ModelWords)
    /\ call.printed[1] = "Configuration Error"
         <=> /\ ~Says(AuthenticationWords)
             /\ ~Says(EndpointWords)
             /\ ~Says(ModelWords)

C30_Witness ==
  /\ call.method = "print_error_help"
  /\ Says(EndpointWords)
  /\ Says(ModelWords)
  /\ call.printed = <<"Endpoint/Project Issue">>

====
